---- MODULE Spec2Model ----
(***************************************************************************)
(* Validator core of condenses/subnet-validating.                          *)
(*                                                                         *)
(* ValidatorCore.run (main.py) starts CONFIG.validating.concurrent_forward *)
(* forward() coroutines, awaits them with asyncio.gather, sleeps and       *)
(* repeats.  Each forward() is one cycle: admission, task fetch, endpoint  *)
(* resolution, dispatch, ScoringManager.get_scores (validation, ledger     *)
(* read, scoring oracle, ledger write), reporting and stats update.  The   *)
(* ledger is the Redis store behind RedisManager.                          *)
(* run() also creates the periodically_set_weights task, which fetches the *)
(* score weights and submits them, sleeps and repeats.                     *)
(*                                                                         *)
(* Scores are integers: raw scores and rates in tenths, final scores in    *)
(* hundredths.  Time is counted in ticks of the ledger's TTL clock.        *)
(***************************************************************************)
EXTENDS Integers, Sequences, FiniteSets, Bags, TLC

VARIABLES
    CONFIG,       \* config.py CONFIG = Settings(): the fields the core reads
    env,          \* what the external services of this run may answer
    redis,        \* the Redis store: key -> [exists, value, ttl]
    cycles,       \* bag of the forward() coroutines alive on the event loop
    run_pc,       \* position of ValidatorCore.run
    should_exit,  \* ValidatorCore.should_exit
    created,      \* number of forward() coroutines created so far
    weights,      \* the periodically_set_weights task
    calc          \* a function of the scoring engine, its arguments and result

vars == <<CONFIG, env, redis, cycles, run_pc, should_exit, created, weights, calc>>

----------------------------------------------------------------------------
(* Bounds of the model *)

\* run() creates at most MaxCycles forward() coroutines
MaxCycles == 4

(* Configuration values, scaled down from the defaults of config.py *)

\* ScoringRateConfig.max_scoring_count
MaxScoringCount == 1
\* ScoringRateConfig.interval, in ticks
Interval == 2
\* ValidatingConfig.max_compress_rate, in tenths
MaxCompressRate == 8

\* the worker ids known to the admission service
Uids == {1, 2}

\* a text handed to the scoring engine has at most MaxTextLen characters,
\* or is a sentence of at most MaxWords words
MaxTextLen == 3
MaxWords == 3
\* get_text_differentiate_score is given at most MaxBatch texts
MaxBatch == 3
\* SCORE_ENSEMBLE is given lists of at most MaxScores numbers
MaxScores == 2
\* a text has at most MaxTokens tokens
MaxTokens == 11
\* validate_responses is given at most MaxResponses responses
MaxResponses == 3

Min(a, b) == IF a <= b THEN a ELSE b

Range(s) == {s[i] : i \in 1..Len(s)}

\* the elements of s from index i on that are in keep
RECURSIVE SelectSeqIdx(_, _, _)
SelectSeqIdx(s, keep, i) ==
    IF i > Len(s) THEN <<>>
    ELSE (IF s[i] \in keep THEN <<s[i]>> ELSE <<>>) \o SelectSeqIdx(s, keep, i + 1)

\* [x for x in s if x in keep], order kept
Filter(s, keep) == SelectSeqIdx(s, keep, 1)

\* all sequences of distinct elements of S with length in lo..hi
DistinctSeqs(S, lo, hi) ==
    {s \in UNION {[1..n -> S] : n \in lo..hi} :
        \A i, j \in 1..Len(s) : i # j => s[i] # s[j]}

----------------------------------------------------------------------------
(* config.py *)

\* the key prefix that config.py gives by default, and another deployment's
DefaultRedisKey == "scored_uid"
RedisKeys == {"scored_uid", "scored"}

Settings(cf, bs, rk) ==
    [concurrent_forward |-> cf,
     batch_size         |-> bs,
     max_scoring_count  |-> MaxScoringCount,
     interval           |-> Interval,
     redis_key          |-> rk,
     max_compress_rate  |-> MaxCompressRate]

----------------------------------------------------------------------------
(* protocol.py: a miner's response.  present = FALSE is the absent (None)    *)
(* response; tokens is the token count of compressed_context, 0 for "".      *)

NoResponse == [present |-> FALSE, is_success |-> FALSE, tokens |-> 0]

\* the reference task: token count of the text the miners compress
Tasks == {[tokens |-> 10]}

\* TextCompresssProtocol.compress_rate, as the pair (numerator, denominator)
compress_rate(response, task) == <<response.tokens, task.tokens>>

\* rate > max_compress_rate, rate = <<n, d>>, max in tenths
RateAbove(rate, max) == rate[1] * 10 > max * rate[2]
RateBelow(rate, max) == rate[1] * 10 < max * rate[2]

\* TextCompresssProtocol.verify: returns the tuple (ok, message)
verify(response, task, config) ==
    IF response.tokens = 0 THEN <<FALSE, "Compressed context is empty">>
    ELSE IF RateAbove(compress_rate(response, task), config.max_compress_rate)
         THEN <<FALSE, "Compress rate is too high">>
         ELSE <<TRUE, "Valid">>

\* Python truth value of a tuple: non-empty is true
TupleTruth(t) == Len(t) > 0

----------------------------------------------------------------------------
(* response_processor.py *)

\* ResponseProcessor.get_compress_rate
get_compress_rate(response, task) == <<response.tokens, task.tokens>>

\* the condition of the if in validate_responses
IsValidResponse(response, task, config) ==
    /\ response.present
    /\ response.is_success
    /\ TupleTruth(verify(response, task, config))
    /\ RateBelow(get_compress_rate(response, task), config.max_compress_rate)

\* the else branch of validate_responses: the reason recorded
InvalidReason(response, task, config) ==
    IF ~response.present THEN "no_response"
    ELSE IF ~response.is_success THEN "not_successful"
    ELSE IF ~TupleTruth(verify(response, task, config)) THEN "verification_failed"
    ELSE IF RateAbove(get_compress_rate(response, task), config.max_compress_rate)
         THEN "compress_rate_too_high"
         ELSE ""

\* ResponseProcessor.validate_responses: for uid, response in zip(uids, responses)
RECURSIVE validate_from(_, _, _, _, _)
validate_from(uids, responses, task, config, i) ==
    IF i > Min(Len(uids), Len(responses))
    THEN [valid |-> <<>>, invalid |-> <<>>]
    ELSE LET rest == validate_from(uids, responses, task, config, i + 1)
         IN  IF IsValidResponse(responses[i], task, config)
             THEN [valid   |-> <<<<uids[i], responses[i]>>>> \o rest.valid,
                   invalid |-> rest.invalid]
             ELSE [valid   |-> rest.valid,
                   invalid |-> <<<<uids[i], responses[i],
                                   InvalidReason(responses[i], task, config)>>>>
                               \o rest.invalid]

validate_responses(uids, responses, task, config) ==
    validate_from(uids, responses, task, config, 1)

----------------------------------------------------------------------------
(* redis_manager.py: the ledger *)

NoKey == [exists |-> FALSE, value |-> 0, ttl |-> 0]

LedgerKeys == RedisKeys \X Uids

\* RedisManager.flush_db
flush_db(store) == [k \in DOMAIN store |-> NoKey]

\* the key get_scored_counter reads for uid: f"scored_uid:{uid}"
ReadKey(uid) == <<DefaultRedisKey, uid>>

\* the key update_scoring_records writes for uid:
\* f"{config.validating.scoring_rate.redis_key}:{uid}"
WriteKey(uid, config) == <<config.redis_key, uid>>

\* one iteration of the loop of get_scored_counter: GET key, and
\* scored_counter[uid] = int(count) when the key exists
ReadOne(store, counter, uid) ==
    IF store[ReadKey(uid)].exists
    THEN [u \in (DOMAIN counter) \cup {uid} |->
            IF u = uid THEN store[ReadKey(uid)].value ELSE counter[u]]
    ELSE counter

\* dict.get(uid, 0)
DictGet(counter, uid) == IF uid \in DOMAIN counter THEN counter[uid] ELSE 0

\* INCR key, and EXPIRE only when INCR has created the key: the window is
\* fixed at the first increment
IncrExpireAtFirst(store, key, interval) ==
    [store EXCEPT ![key] = [exists |-> TRUE, value |-> @.value + 1,
                            ttl |-> IF @.exists THEN @.ttl ELSE interval]]

\* INCR key; EXPIRE key interval
IncrExpire(store, key, interval) ==
    [store EXCEPT ![key] = [exists |-> TRUE, value |-> @.value + 1, ttl |-> interval]]

\* RedisManager.update_scoring_records: the pipeline, executed as one transaction
RECURSIVE update_from(_, _, _, _)
update_from(store, uids, config, i) ==
    IF i > Len(uids) THEN store
    ELSE update_from(IncrExpire(store, WriteKey(uids[i], config), config.interval),
                     uids, config, i + 1)

update_scoring_records(store, uids, config) == update_from(store, uids, config, 1)

\* a clock that lets a key outlive its TTL: at the end of the window the
\* key stays, with its value
ExpireKeepsKey(store) ==
    [k \in DOMAIN store |->
        IF ~store[k].exists THEN store[k]
        ELSE [store[k] EXCEPT !.ttl = IF @ <= 1 THEN 0 ELSE @ - 1]]

\* one tick of the store's clock: TTLs run down and a key at 0 is deleted
Expire(store) ==
    [k \in DOMAIN store |->
        IF ~store[k].exists THEN store[k]
        ELSE IF store[k].ttl <= 1 THEN NoKey
        ELSE [store[k] EXCEPT !.ttl = @ - 1]]

----------------------------------------------------------------------------
(* main.py: ScoringManager.get_scores, the class ValidatorCore instantiates *)

\* raw scores the oracle may give, in tenths
RawScores == {8}

\* score * 0.8 + (1 - response.compress_rate) * 0.2, in hundredths
main_score(score, response, task) ==
    score * 8 + ((10 * task.tokens - 10 * response.tokens) * 2) \div task.tokens

\* [f(score, r) for score, r in zip(valid_scores, valid_responses)]
main_valid_scores(raw, valid, task) ==
    [i \in 1..Min(Len(raw), Len(valid)) |-> main_score(raw[i], valid[i][2], task)]

\* [uid for uid in valid_uids if scored_counter.get(uid, 0) < max_scoring_count]
valid_uids_to_score(valid_uids, scored_counter, config) ==
    Filter(valid_uids,
           {u \in Range(valid_uids) :
               DictGet(scored_counter, u) < config.max_scoring_count})

\* the texts handed to score_batch, named by the worker each came from:
\* [response.compressed_context for response in valid_responses]
main_oracle_batch(valid) == [i \in 1..Len(valid) |-> valid[i][1]]

Zeros(n) == [i \in 1..n |-> 0]

----------------------------------------------------------------------------
(* main.py: ValidatorCore.forward, one record per live coroutine *)

Terminal == {"completed", "aborted", "raised"}

NoTask == [tokens |-> 0]

NewCycle ==
    [pc             |-> "start",
     awaited        |-> TRUE,     \* a member of the gather run() is waiting on
     at             |-> "start",  \* the stage at which the coroutine ended
     error          |-> "none",   \* the stage whose exception forward caught
     uids           |-> <<>>,     \* the ids granted by consume_rate_limits
     task           |-> NoTask,
     axons          |-> <<>>,     \* the worker behind each resolved axon
     responses      |-> <<>>,
     valid          |-> <<>>,
     invalid        |-> <<>>,
     rd             |-> 0,        \* ids read so far by get_scored_counter
     scored_counter |-> <<>>,
     to_score       |-> <<>>,
     calls          |-> <<>>,     \* the batches handed to score_batch
     raw            |-> <<>>,     \* the raw scores score_batch answered
     valid_scores   |-> <<>>,
     recorded       |-> <<>>,     \* the lists handed to update_scoring_records
     final_uids     |-> <<>>,
     final_scores   |-> <<>>,
     report         |-> "none",   \* what became of the post of the batch record
     stats          |-> <<>>,     \* the (uid, score) pairs update_stats received
     pending        |-> <<>>]     \* the update_stats calls still in flight

Live == BagToSet(cycles)

Swap(c, d) == cycles' = (cycles (-) SetToBag({c})) (+) SetToBag({d})

\* add_log returns (TRUE) or, when the log store may fail, raises (FALSE)
LogOutcomes == {TRUE} \cup (IF "log" \in env.faults THEN {FALSE} ELSE {})

\* the external call of a stage may raise
StageFails == "stage" \in env.faults

\* the coroutine ends: by return after the handler's add_log, or by the
\* exception add_log raises
Ended(c, how) == [c EXCEPT !.pc = how, !.at = c.pc]

\* control reaches an except clause of forward
Caught(c) == [c EXCEPT !.error = c.pc]

\* an except clause of forward, entered by coroutine c in local state d:
\* add_log, then return
Handler(c, d) == \E logged \in LogOutcomes :
    Swap(c, Ended(Caught(d), IF logged THEN "aborted" ELSE "raised"))

\* add_log outside every try, by coroutine c in local state d: the cycle
\* goes on to e, or the exception leaves forward
Logged(c, d, e) == \E logged \in LogOutcomes :
    Swap(c, IF logged THEN e ELSE Ended(d, "raised"))

\* lines 153-154
Start(c) ==
    /\ c.pc = "start"
    /\ Logged(c, c, [c EXCEPT !.pc = "admission"])
    /\ UNCHANGED <<CONFIG, env, redis, run_pc, should_exit, created, weights, calc>>

\* lines 155-167: orchestrator.consume_rate_limits
Admission(c) ==
    /\ c.pc = "admission"
    /\ \/ \E u \in env.grants :
             Swap(c, [c EXCEPT !.pc = "task", !.uids = u])
       \/ StageFails /\ Handler(c, c)
    /\ UNCHANGED <<CONFIG, env, redis, run_pc, should_exit, created, weights, calc>>

\* lines 168-175: get_synthetic
TaskFetch(c) ==
    /\ c.pc = "task"
    /\ \/ \E t \in Tasks : Logged(c, c, [c EXCEPT !.pc = "axons", !.task = t])
       \/ StageFails /\ Handler(c, c)
    /\ UNCHANGED <<CONFIG, env, redis, run_pc, should_exit, created, weights, calc>>

\* the id lists get_axons may answer for: all ids, or one id dropped
Resolved(uids) ==
    {uids} \cup (IF env.drops
                 THEN {Filter(uids, Range(uids) \ {u}) : u \in Range(uids)}
                 ELSE {})

\* lines 176-183: get_axons
Axons(c) ==
    /\ c.pc = "axons"
    /\ \/ \E a \in Resolved(c.uids) :
             Logged(c, c, [c EXCEPT !.pc = "dispatch", !.axons = a])
       \/ StageFails /\ Handler(c, c)
    /\ UNCHANGED <<CONFIG, env, redis, run_pc, should_exit, created, weights, calc>>

\* what a miner may answer: nothing, a failure, a compressed text
Failed == [present |-> TRUE, is_success |-> FALSE, tokens |-> 5]
Good == [present |-> TRUE, is_success |-> TRUE, tokens |-> 5]

\* lines 185-199: dendrite.forward
Dispatch(c) ==
    /\ c.pc = "dispatch"
    /\ \/ \E r \in [1..Len(c.axons) -> env.responses] :
             Logged(c, c, [c EXCEPT !.pc = "validate", !.responses = r])
       \/ StageFails /\ Handler(c, c)
    /\ UNCHANGED <<CONFIG, env, redis, run_pc, should_exit, created, weights, calc>>

\* get_scores returns (final_uids, final_scores) to forward
Return(c, fu, fs) == [c EXCEPT !.pc = "report", !.final_uids = fu, !.final_scores = fs]

uids_of(pairs) == [i \in 1..Len(pairs) |-> pairs[i][1]]

\* lines 200-206 and get_scores lines 44-64: validate_responses
Validate(c) ==
    /\ c.pc = "validate"
    /\ \/ LET v == validate_responses(c.uids, c.responses, c.task, CONFIG)
              d == [c EXCEPT !.valid = v.valid, !.invalid = v.invalid]
          IN  IF v.valid = <<>>
              THEN Swap(c, Return(d, uids_of(v.invalid), Zeros(Len(v.invalid))))
              ELSE Swap(c, [d EXCEPT !.pc = "read"])
       \/ StageFails /\ Handler(c, c)
    /\ UNCHANGED <<CONFIG, env, redis, run_pc, should_exit, created, weights, calc>>

\* get_scores lines 65-71 and 96-110: one GET of get_scored_counter; after
\* the last, the eligible ids are chosen.  The call at line 65 names no ids
\* while the method takes them: the keys read are those of the ids the
\* caller looks up, the valid ones, and a call that raises is a stage failure
ReadCounter(c) ==
    /\ c.pc = "read"
    /\ \/ LET vu == uids_of(c.valid)
              sc == ReadOne(redis, c.scored_counter, vu[c.rd + 1])
              ts == valid_uids_to_score(vu, sc, CONFIG)
              d  == [c EXCEPT !.rd = @ + 1, !.scored_counter = sc]
          IN  IF c.rd + 1 < Len(vu) THEN Swap(c, d)
              ELSE IF ts # <<>>
              THEN Swap(c, [d EXCEPT !.pc = "oracle", !.to_score = ts])
              ELSE Swap(c, Return(d, uids_of(c.invalid), Zeros(Len(c.invalid))))
       \/ StageFails /\ Handler(c, c)
    /\ UNCHANGED <<CONFIG, env, redis, run_pc, should_exit, created, weights, calc>>

\* the lists score_batch may answer with for n texts
OracleAnswers(n) ==
    UNION {[1..m -> RawScores] :
             m \in {k \in (IF "scores" \in env.faults THEN {n - 1, n, n + 1} ELSE {n}) :
                      k >= 0}}

\* get_scores with update_scoring_records moved before score_batch: the
\* workers are charged, then the oracle is asked
OracleAfterRecord(c) ==
    /\ c.pc = "oracle"
    /\ redis' = update_scoring_records(redis, c.to_score, CONFIG)
    /\ LET d == [c EXCEPT !.recorded = Append(@, c.to_score)]
       IN  \/ \E raw \in OracleAnswers(Len(c.valid)) :
                 Swap(c, Return([d EXCEPT !.calls = Append(@, main_oracle_batch(c.valid)),
                                          !.raw = raw,
                                          !.valid_scores = main_valid_scores(raw, c.valid, c.task)],
                                uids_of(c.invalid) \o uids_of(c.valid),
                                Zeros(Len(c.invalid)) \o main_valid_scores(raw, c.valid, c.task)))
           \/ StageFails /\ Handler(c, d)
    /\ UNCHANGED <<CONFIG, env, run_pc, should_exit, created, weights, calc>>

\* get_scores lines 73-91: scoring_client.score_batch
Oracle(c) ==
    /\ c.pc = "oracle"
    /\ \/ \E raw \in OracleAnswers(Len(c.valid)) :
             Swap(c, [c EXCEPT !.pc = "record",
                               !.calls = Append(@, main_oracle_batch(c.valid)),
                               !.raw = raw,
                               !.valid_scores = main_valid_scores(raw, c.valid, c.task)])
       \/ StageFails /\ Handler(c, c)
    /\ UNCHANGED <<CONFIG, env, redis, run_pc, should_exit, created, weights, calc>>

\* get_scores lines 92-110: update_scoring_records, then the result
Record(c) ==
    /\ c.pc = "record"
    /\ \/ /\ redis' = update_scoring_records(redis, c.to_score, CONFIG)
          /\ LET d == [c EXCEPT !.recorded = Append(@, c.to_score)]
             IN  \/ Swap(c, Return(d, uids_of(c.invalid) \o uids_of(c.valid),
                                      Zeros(Len(c.invalid)) \o c.valid_scores))
                 \/ StageFails /\ Handler(c, d)
       \/ StageFails /\ Handler(c, c) /\ UNCHANGED redis
    /\ UNCHANGED <<CONFIG, env, run_pc, should_exit, created, weights, calc>>

\* the post of line 217 returns or, when the sink may fail, raises into
\* the except clause of line 222, which logs and goes on
PostOutcomes == {"posted"} \cup (IF StageFails THEN {"swallowed"} ELSE {})

\* lines 207-229: ScoringBatchLog reads response.compressed_context of every
\* response; the post's own failure is swallowed
Report(c) ==
    /\ c.pc = "report"
    /\ IF \E i \in 1..Len(c.responses) : ~c.responses[i].present
       THEN Handler(c, c)
       ELSE \E o \in PostOutcomes :
               Logged(c, [c EXCEPT !.report = o], [c EXCEPT !.pc = "stats", !.report = o])
    /\ UNCHANGED <<CONFIG, env, redis, run_pc, should_exit, created, weights, calc>>

\* zip(uids, scores)
Pairs(uids, scores) == [i \in 1..Min(Len(uids), Len(scores)) |-> <<uids[i], scores[i]>>]

\* s without its k-th element
Without(s, k) == [i \in 1..(Len(s) - 1) |-> IF i < k THEN s[i] ELSE s[i + 1]]

\* lines 230-241: update_stats for every pair, gathered.  gather returns
\* when every call has returned; it raises as soon as one call raises, and
\* the calls that have not returned by then stay in flight
Stats(c) ==
    /\ c.pc = "stats"
    /\ LET p == Pairs(c.final_uids, c.final_scores)
           d == [c EXCEPT !.stats = p]
       IN  \/ Logged(c, d, Ended(d, "completed"))
           \/ \E k \in 1..Len(p) : \E n \in 0..(Len(p) - 1) :
                 /\ StageFails
                 /\ Handler(c, [c EXCEPT !.stats = SubSeq(Without(p, k), 1, n),
                                         !.pending = SubSeq(Without(p, k), n + 1, Len(p) - 1)])
    /\ UNCHANGED <<CONFIG, env, redis, run_pc, should_exit, created, weights, calc>>

\* an update_stats call left in flight by the gather of line 235 returns.
\* The step commutes with every step of run() and of the other coroutines,
\* so it is taken while the record of the ended coroutine is still kept
LateStats(c) ==
    /\ c.pc \in Terminal
    /\ c.pending # <<>>
    /\ Swap(c, [c EXCEPT !.stats = Append(@, Head(c.pending)), !.pending = Tail(@)])
    /\ UNCHANGED <<CONFIG, env, redis, run_pc, should_exit, created, weights, calc>>

\* no function of the scoring engine is being applied
NoCalc == [fn |-> "none", done |-> FALSE]

----------------------------------------------------------------------------
(* main.py: ValidatorCore.periodically_set_weights, the task run() creates *)

NoSnapshot == <<>>

\* the (uids, weights) pairs get_score_weights may answer
Snapshots == {<<<<1, 2>>, <<7, 3>>>>}

NoWeights ==
    [pc       |-> "unborn",    \* position of the task; unborn until created
     snapshot |-> NoSnapshot,  \* uids, weights of this tick
     sent     |-> NoSnapshot,  \* what this tick handed to set_weights
     result   |-> FALSE,       \* the result set_weights answered
     failed   |-> FALSE]       \* some tick so far has failed

\* run() without line 248: no weights task is created
TaskNotCreated(w) == w

\* line 248: asyncio.create_task(self.periodically_set_weights()); the task
\* enters its while loop
create_task(w) == [w EXCEPT !.pc = IF should_exit THEN "done" ELSE "fetch"]

\* a tick whose try encloses the while loop: the exception ends the task
TickEscapes(w) == [w EXCEPT !.pc = "done", !.failed = TRUE]

\* lines 285-287: the except clause of the tick, then the sleep
TickCaught(w) == [w EXCEPT !.pc = "sleep", !.failed = TRUE]

\* line 268: orchestrator.get_score_weights
GetScoreWeights ==
    /\ weights.pc = "fetch"
    /\ \/ \E s \in Snapshots : weights' = [weights EXCEPT !.pc = "submit", !.snapshot = s]
       \/ StageFails /\ weights' = TickCaught(weights)
    /\ UNCHANGED <<CONFIG, env, redis, cycles, run_pc, should_exit, created, calc>>

\* lines 269-271: restful_bittensor.set_weights(uids, weights)
SetWeights ==
    /\ weights.pc = "submit"
    /\ \/ \E r \in BOOLEAN :
             weights' = [weights EXCEPT !.pc = "log", !.sent = weights.snapshot,
                                        !.result = r, !.failed = @ \/ ~r]
       \/ StageFails /\ weights' = TickCaught([weights EXCEPT !.sent = weights.snapshot])
    /\ UNCHANGED <<CONFIG, env, redis, cycles, run_pc, should_exit, created, calc>>

\* lines 272-284: add_log of the outcome, inside the try
LogWeights ==
    /\ weights.pc = "log"
    /\ \E logged \in LogOutcomes :
          weights' = IF logged THEN [weights EXCEPT !.pc = "sleep"]
                     ELSE TickCaught(weights)
    /\ UNCHANGED <<CONFIG, env, redis, cycles, run_pc, should_exit, created, calc>>

\* line 287 and line 266: asyncio.sleep(60), then the loop condition
SleepWeights ==
    /\ weights.pc = "sleep"
    /\ weights' = IF should_exit THEN [weights EXCEPT !.pc = "done"]
                  ELSE [weights EXCEPT !.pc = "fetch", !.snapshot = NoSnapshot,
                                       !.sent = NoSnapshot, !.result = FALSE]
    /\ UNCHANGED <<CONFIG, env, redis, cycles, run_pc, should_exit, created, calc>>

periodically_set_weights ==
    \/ GetScoreWeights
    \/ SetWeights
    \/ LogWeights
    \/ SleepWeights

----------------------------------------------------------------------------
(* main.py: ValidatorCore.run *)

\* the store as run() may find it: empty, or with a record of an earlier run
StoresAtStart ==
    {[k \in LedgerKeys |-> NoKey],
     [k \in LedgerKeys |->
        IF k = <<DefaultRedisKey, 1>>
        THEN [exists |-> TRUE, value |-> MaxScoringCount, ttl |-> Interval]
        ELSE NoKey]}

\* the runs explored: a configuration, and the answers its services may give
Scenarios ==
    { \* two concurrent cycles on one worker, any call and any log may fail
      [config |-> Settings(2, 1, DefaultRedisKey),
       env    |-> [grants |-> {<<1>>}, responses |-> {Good}, drops |-> FALSE,
                   faults |-> {"stage", "log"}]],
      \* two concurrent cycles on two workers, nothing fails
      [config |-> Settings(2, 2, DefaultRedisKey),
       env    |-> [grants |-> {<<1, 2>>}, responses |-> {Good}, drops |-> FALSE,
                   faults |-> {}]],
      \* one cycle at a time, every answer of every service
      [config |-> Settings(1, 2, DefaultRedisKey),
       env    |-> [grants |-> DistinctSeqs(Uids, 1, 2),
                   responses |-> {NoResponse, Failed, Good}, drops |-> TRUE,
                   faults |-> {"stage", "log", "scores"}]],
      \* one cycle at a time, the ledger under a key prefix of its own
      [config |-> Settings(1, 1, "scored"),
       env    |-> [grants |-> {<<1>>}, responses |-> {Good}, drops |-> FALSE,
                   faults |-> {}]] }

Init ==
    /\ \E sc \in Scenarios : CONFIG = sc.config /\ env = sc.env
    /\ redis \in StoresAtStart
    /\ cycles = EmptyBag
    /\ run_pc = "flush"
    /\ should_exit = FALSE
    /\ created = 0
    /\ weights = NoWeights
    /\ calc = NoCalc

\* lines 246-248: await self.redis_manager.flush_db(), then
\* asyncio.create_task(self.periodically_set_weights())
FlushDb ==
    /\ run_pc = "flush"
    /\ redis' = flush_db(redis)
    /\ run_pc' = "loop"
    /\ weights' = create_task(weights)
    /\ UNCHANGED <<CONFIG, env, cycles, should_exit, created, calc>>

\* lines 251-256: the forward() coroutines of one round, handed to gather
Spawn ==
    /\ run_pc = "loop"
    /\ ~should_exit
    /\ created + CONFIG.concurrent_forward <= MaxCycles
    /\ cycles' = cycles (+) [c \in {NewCycle} |-> CONFIG.concurrent_forward]
    /\ created' = created + CONFIG.concurrent_forward
    /\ run_pc' = "gather"
    /\ UNCHANGED <<CONFIG, env, redis, should_exit, weights, calc>>

Awaited == {c \in Live : c.awaited}

\* line 256: gather returns once every coroutine of the round has returned
GatherReturn ==
    /\ run_pc = "gather"
    /\ \A c \in Awaited : c.pc \in {"completed", "aborted"}
    /\ cycles' = [c \in Live \ Awaited |-> cycles[c]]
    /\ run_pc' = "sleep"
    /\ UNCHANGED <<CONFIG, env, redis, should_exit, created, weights, calc>>

\* the bag with every coroutine still running no longer awaited, and the
\* ended coroutines of the round dropped
Orphaned(bag) ==
    LET keep == {c \in BagToSet(bag) : ~(c.awaited /\ c.pc \in Terminal)}
        img  == {[c EXCEPT !.awaited = FALSE] : c \in keep}
    IN  [d \in img |->
            (IF d \in keep THEN bag[d] ELSE 0)
            + (IF [d EXCEPT !.awaited = TRUE] \in keep
               THEN bag[[d EXCEPT !.awaited = TRUE]] ELSE 0)]

\* run() without the except clause of line 258: the exception ends run()
GatherRaiseEndsRun ==
    /\ run_pc = "gather"
    /\ \E c \in Awaited : c.pc = "raised"
    /\ cycles' = Orphaned(cycles)
    /\ run_pc' = "ended"
    /\ UNCHANGED <<CONFIG, env, redis, should_exit, created, weights, calc>>

\* lines 256-260: gather raises the first exception of the round to run(),
\* which logs it and goes round the loop; the other coroutines run on
GatherRaise ==
    /\ run_pc = "gather"
    /\ \E c \in Awaited : c.pc = "raised"
    /\ cycles' = Orphaned(cycles)
    /\ run_pc' = "loop"
    /\ UNCHANGED <<CONFIG, env, redis, should_exit, created, weights, calc>>

\* line 257: await asyncio.sleep(8)
Sleep ==
    /\ run_pc = "sleep"
    /\ run_pc' = "loop"
    /\ UNCHANGED <<CONFIG, env, redis, cycles, should_exit, created, weights, calc>>

\* a coroutine nobody awaits ends and is dropped by the event loop
Reap(c) ==
    /\ c.pc \in Terminal
    /\ ~c.awaited
    /\ cycles' = cycles (-) SetToBag({c})
    /\ UNCHANGED <<CONFIG, env, redis, run_pc, should_exit, created, weights, calc>>

\* the store's clock
Tick ==
    /\ \E k \in DOMAIN redis : redis[k].exists
    /\ redis' = Expire(redis)
    /\ UNCHANGED <<CONFIG, env, cycles, run_pc, should_exit, created, weights, calc>>

Forward(c) ==
    \/ Start(c)
    \/ Admission(c)
    \/ TaskFetch(c)
    \/ Axons(c)
    \/ Dispatch(c)
    \/ Validate(c)
    \/ ReadCounter(c)
    \/ Oracle(c)
    \/ Record(c)
    \/ Report(c)
    \/ Stats(c)
    \/ LateStats(c)

Next ==
    \/ FlushDb
    \/ Spawn
    \/ GatherReturn
    \/ GatherRaise
    \/ Sleep
    \/ Tick
    \/ \E c \in Live : Forward(c) \/ Reap(c)

\* the cycles and their scheduler.  The weights task shares no state with
\* them and is left at rest here; Service runs both.
Spec == Init /\ [][Next]_vars

\* the runs of the whole service that are explored: two concurrent cycles
\* on one worker, where the external calls may fail and the worker answers
\* well, or the log store may fail and the worker answers with a failure;
\* and one cycle at a time, where both may fail
ServiceScenarios ==
    { [config |-> Settings(2, 1, DefaultRedisKey),
       env    |-> [grants |-> {<<1>>}, responses |-> {Good}, drops |-> FALSE,
                   faults |-> {"stage"}]],
      [config |-> Settings(2, 1, DefaultRedisKey),
       env    |-> [grants |-> {<<1>>}, responses |-> {Failed}, drops |-> FALSE,
                   faults |-> {"log"}]],
      [config |-> Settings(1, 1, DefaultRedisKey),
       env    |-> [grants |-> {<<1>>}, responses |-> {Failed}, drops |-> FALSE,
                   faults |-> {"stage", "log"}]] }

ServiceInit ==
    /\ \E sc \in ServiceScenarios : CONFIG = sc.config /\ env = sc.env
    /\ redis \in StoresAtStart
    /\ cycles = EmptyBag
    /\ run_pc = "flush"
    /\ should_exit = FALSE
    /\ created = 0
    /\ weights = NoWeights
    /\ calc = NoCalc

ServiceNext == Next \/ periodically_set_weights

\* the event loop runs a task that is ready: flush_db returns, and every
\* call and sleep of the weights task returns or raises.  Nothing is
\* assumed of the cycles.
Service ==
    /\ ServiceInit /\ [][ServiceNext]_vars
    /\ WF_vars(FlushDb)
    /\ WF_vars(periodically_set_weights)

\* as Service, and every call and sleep of run() and of the cycles returns
\* or raises
FairService ==
    /\ Service
    /\ WF_vars(Spawn)
    /\ WF_vars(GatherReturn)
    /\ WF_vars(GatherRaise)
    /\ WF_vars(Sleep)
    /\ WF_vars(\E c \in Live : Forward(c))

----------------------------------------------------------------------------
(* score_utils.py: the scoring engine.  A float is the fraction <<n, d>>,   *)
(* d > 0; a text is a sequence of characters.                               *)

RECURSIVE Gcd(_, _)
Gcd(a, b) == IF b = 0 THEN a ELSE Gcd(b, a % b)

Abs(n) == IF n < 0 THEN -n ELSE n

\* n / d in lowest terms
Frac(n, d) == LET g == Gcd(Abs(n), d) IN <<n \div g, d \div g>>
FracAdd(x, y) == Frac(x[1] * y[2] + y[1] * x[2], x[2] * y[2])
FracSub(x, y) == Frac(x[1] * y[2] - y[1] * x[2], x[2] * y[2])
FracMul(x, y) == Frac(x[1] * y[1], x[2] * y[2])

One == Frac(1, 1)
Zero == Frac(0, 1)

\* the characters of the texts: letters in both cases, a blank, a mark
Chars == {"a", "A", "b", " ", "!"}

\* the character as it is: words compared with their case
KeepCase(ch) == ch

\* str.lower, one character
Lower(ch) == IF ch = "A" THEN "a" ELSE ch

\* the class \w of the regular expression
IsWordChar(ch) == ch \in {"a", "A", "b"}

\* re.findall(r"\b\w+\b", ...) from position i on, cur being the word begun
RECURSIVE findall(_, _, _)
findall(text, i, cur) ==
    LET done == IF cur = <<>> THEN <<>> ELSE <<cur>>
    IN  IF i > Len(text) THEN done
        ELSE IF IsWordChar(text[i]) THEN findall(text, i + 1, Append(cur, text[i]))
        ELSE done \o findall(text, i + 1, <<>>)

\* extract_words: re.findall(r"\b\w+\b", text.lower())
extract_words(text) == findall([i \in 1..Len(text) |-> Lower(text[i])], 1, <<>>)

Min3(a, b, c) == Min(a, Min(b, c))

\* the table filled without the substitution of line 56
RECURSIVE dp_without_substitution(_, _, _, _)
dp_without_substitution(words1, words2, i, j) ==
    IF j = 0 THEN i
    ELSE IF i = 0 THEN j
    ELSE IF words1[i] = words2[j] THEN dp_without_substitution(words1, words2, i - 1, j - 1)
    ELSE 1 + Min(dp_without_substitution(words1, words2, i - 1, j),
                 dp_without_substitution(words1, words2, i, j - 1))

\* the cell dp[i][j] of word_edit_distance, lines 41-57
RECURSIVE dp(_, _, _, _)
dp(words1, words2, i, j) ==
    IF j = 0 THEN i
    ELSE IF i = 0 THEN j
    ELSE IF words1[i] = words2[j] THEN dp(words1, words2, i - 1, j - 1)
    ELSE 1 + Min3(dp(words1, words2, i - 1, j),
                  dp(words1, words2, i, j - 1),
                  dp(words1, words2, i - 1, j - 1))

\* word_edit_distance: dp[m][n]
word_edit_distance(text1, text2) ==
    LET words1 == extract_words(text1)
        words2 == extract_words(text2)
    IN  dp(words1, words2, Len(words1), Len(words2))

Max(a, b) == IF a >= b THEN a ELSE b

\* word_edit_similarity: 1 - (distance / max_length) if max_length > 0 else 1.0
word_edit_similarity(text1, text2) ==
    LET distance   == word_edit_distance(text1, text2)
        max_length == Max(Len(extract_words(text1)), Len(extract_words(text2)))
    IN  IF max_length > 0 THEN FracSub(One, Frac(distance, max_length)) ELSE One

\* total_diff of lines 96-101: the sum over j # i, from j on
RECURSIVE total_diff(_, _, _)
total_diff(texts, i, j) ==
    IF j > Len(texts) THEN Zero
    ELSE IF i = j THEN total_diff(texts, i, j + 1)
    ELSE FracAdd(FracSub(One, word_edit_similarity(texts[i], texts[j])),
                 total_diff(texts, i, j + 1))

\* get_text_differentiate_score with avg_diff = total_diff / n
differentiate_over_n(texts) ==
    IF Len(texts) = 0 THEN <<>>
    ELSE IF Len(texts) = 1 THEN <<One>>
    ELSE [i \in 1..Len(texts) |->
            FracMul(total_diff(texts, i, 1), Frac(1, Len(texts)))]

\* get_text_differentiate_score
get_text_differentiate_score(texts) ==
    IF Len(texts) = 0 THEN <<>>
    ELSE IF Len(texts) = 1 THEN <<One>>
    ELSE [i \in 1..Len(texts) |->
            FracMul(total_diff(texts, i, 1), Frac(1, Len(texts) - 1))]

\* the entry with the base weight taken off:
\* (compress_rate * 0.2 + differentiate_score * 0.1) * score - score * 0.7
ensemble_minus_base(score, rate, differentiate_score) ==
    FracSub(FracMul(FracAdd(FracMul(rate, Frac(2, 10)),
                            FracMul(differentiate_score, Frac(1, 10))),
                    score),
            FracMul(score, Frac(7, 10)))

\* one entry of SCORE_ENSEMBLE:
\* score * 0.7 + (compress_rate * 0.2 + differentiate_score * 0.1) * score
ensemble(score, rate, differentiate_score) ==
    FracAdd(FracMul(score, Frac(7, 10)),
            FracMul(FracAdd(FracMul(rate, Frac(2, 10)),
                            FracMul(differentiate_score, Frac(1, 10))),
                    score))

\* SCORE_ENSEMBLE: the comprehension over zip of the three lists
SCORE_ENSEMBLE(raw_scores, compress_rates, differentiate_scores) ==
    [i \in 1..Min3(Len(raw_scores), Len(compress_rates), Len(differentiate_scores)) |->
        ensemble(raw_scores[i], compress_rates[i], differentiate_scores[i])]

\* the rates clamped at 0: [max(0, 1 - token_count / ref_tokens) for ...]
clamped_compress_rates(ref_tokens, compressed_tokens) ==
    IF ref_tokens = 0 /\ compressed_tokens # <<>> THEN "ZeroDivisionError"
    ELSE [i \in 1..Len(compressed_tokens) |->
            IF compressed_tokens[i] > ref_tokens THEN Zero
            ELSE FracSub(One, Frac(compressed_tokens[i], ref_tokens))]

\* ScoringManager.calculate_compress_rates, on the token counts the
\* tokenizer gives: [1 - token_count / ref_tokens for ...]; the division by
\* ref_tokens = 0 raises
calculate_compress_rates(ref_tokens, compressed_tokens) ==
    IF ref_tokens = 0 /\ compressed_tokens # <<>> THEN "ZeroDivisionError"
    ELSE [i \in 1..Len(compressed_tokens) |->
            FracSub(One, Frac(compressed_tokens[i], ref_tokens))]

----------------------------------------------------------------------------
(* The scoring engine on its own: one function of response_processor.py or  *)
(* score_utils.py is called on an argument and returns.  calc holds the     *)
(* call; the validator loop is at rest.                                     *)

\* successful responses: "" (no token), a text at the maximum rate, one above
Empty == [present |-> TRUE, is_success |-> TRUE, tokens |-> 0]
AtMax == [present |-> TRUE, is_success |-> TRUE, tokens |-> 8]
TooLong == [present |-> TRUE, is_success |-> TRUE, tokens |-> 9]

Responses == {NoResponse, Failed, Good, Empty, AtMax, TooLong}

\* all sequences over S of length at most n
SeqsUpTo(S, n) == UNION {[1..k -> S] : k \in 0..n}

\* the texts: every string of at most MaxTextLen characters ...
RawTexts == SeqsUpTo(Chars, MaxTextLen)

\* " ".join(words), from word i on
RECURSIVE join(_, _)
join(words, i) ==
    IF i > Len(words) THEN <<>>
    ELSE IF i = Len(words) THEN words[i]
    ELSE words[i] \o <<" ">> \o join(words, i + 1)

\* ... and every sentence of at most MaxWords one-letter words
Sentences == {join(ws, 1) : ws \in SeqsUpTo({<<"a">>, <<"b">>}, MaxWords)}

Texts == RawTexts \cup Sentences

\* the texts of a batch of candidates
Candidates == {<<>>, <<"a">>, <<"A">>, <<"a", " ", "b">>, <<"a", "!", "b">>,
               <<"b", " ", "a">>, <<"b", " ", "a", " ", "b">>}

\* numbers the oracle and the other two terms may give, in tenths
RawGrid == {Frac(-5, 10), Zero, Frac(5, 10), Frac(8, 10), One}
RateGrid == {Frac(-4, 1), Zero, Frac(5, 10), One}
DiffGrid == {Zero, Frac(5, 10), One}

Call(fn, args) == [fn |-> fn, done |-> FALSE, args |-> args, out |-> <<>>]

EngineInit ==
    /\ CONFIG = Settings(1, 1, DefaultRedisKey)
    /\ env = [grants |-> {}, responses |-> {}, drops |-> FALSE, faults |-> {}]
    /\ redis = [k \in LedgerKeys |-> NoKey]
    /\ cycles = EmptyBag
    /\ run_pc = "flush"
    /\ should_exit = FALSE
    /\ created = 0
    /\ weights = NoWeights
    /\ \/ \E n \in 0..MaxResponses, task \in Tasks :
            \E rs \in [1..n -> Responses] :
               calc = Call("validate_responses",
                           [uids |-> [i \in 1..n |-> i], responses |-> rs, task |-> task])
       \/ \E t1, t2 \in Texts :
            calc = Call("word_edit_similarity", [text1 |-> t1, text2 |-> t2])
       \/ \E texts \in SeqsUpTo(Candidates, MaxBatch) :
            calc = Call("get_text_differentiate_score", [texts |-> texts])
       \/ \E rs \in SeqsUpTo(RawGrid, MaxScores), cs \in SeqsUpTo(RateGrid, MaxScores),
             ds \in SeqsUpTo(DiffGrid, MaxScores) :
            calc = Call("SCORE_ENSEMBLE",
                        [raw_scores |-> rs, compress_rates |-> cs,
                         differentiate_scores |-> ds])
       \/ \E ref \in 0..MaxTokens, ts \in SeqsUpTo(0..MaxTokens, 1) :
            calc = Call("calculate_compress_rates",
                        [ref_tokens |-> ref, compressed_tokens |-> ts])

\* the call returns out
Returns(out) ==
    /\ ~calc.done
    /\ calc' = [calc EXCEPT !.done = TRUE, !.out = out]
    /\ UNCHANGED <<CONFIG, env, redis, cycles, run_pc, should_exit, created, weights>>

ValidateResponses ==
    /\ calc.fn = "validate_responses"
    /\ Returns(validate_responses(calc.args.uids, calc.args.responses,
                                  calc.args.task, CONFIG))

\* the distance is kept beside the similarity it gives
WordEditSimilarity ==
    /\ calc.fn = "word_edit_similarity"
    /\ Returns([distance   |-> word_edit_distance(calc.args.text1, calc.args.text2),
                similarity |-> word_edit_similarity(calc.args.text1, calc.args.text2)])

GetTextDifferentiateScore ==
    /\ calc.fn = "get_text_differentiate_score"
    /\ Returns(get_text_differentiate_score(calc.args.texts))

ScoreEnsemble ==
    /\ calc.fn = "SCORE_ENSEMBLE"
    /\ Returns(SCORE_ENSEMBLE(calc.args.raw_scores, calc.args.compress_rates,
                              calc.args.differentiate_scores))

CalculateCompressRates ==
    /\ calc.fn = "calculate_compress_rates"
    /\ Returns(calculate_compress_rates(calc.args.ref_tokens,
                                        calc.args.compressed_tokens))

EngineNext ==
    \/ ValidateResponses
    \/ WordEditSimilarity
    \/ GetTextDifferentiateScore
    \/ ScoreEnsemble
    \/ CalculateCompressRates

Engine == EngineInit /\ [][EngineNext]_vars

----------------------------------------------------------------------------
(* Properties *)

\* the cycles that began their pipeline and have not ended
Running == {c \in Live : c.pc \notin Terminal \cup {"start"}}

NumRunning == BagCardinality([c \in Running |-> cycles[c]])

\* get_scores of cycle c has read every counter it looks up
HasRead(c) == c.valid # <<>> /\ c.rd = Len(c.valid)

\* the valid workers of c that its ledger read found at the limit
Ineligible(c) ==
    {w \in Range(uids_of(c.valid)) :
        HasRead(c) /\ DictGet(c.scored_counter, w) >= CONFIG.max_scoring_count}

\* the workers whose text c sent to the oracle
Sent(c) == UNION {Range(c.calls[i]) : i \in 1..Len(c.calls)}

\* the workers c sent to the oracle and got a score back for
Scored(c) ==
    UNION {{c.calls[i][j] : j \in 1..Min(Len(c.calls[i]), Len(c.raw))} :
             i \in 1..Len(c.calls)}

\* the workers c handed to update_scoring_records
Recorded(c) == UNION {Range(c.recorded[i]) : i \in 1..Len(c.recorded)}

\* get_scores has returned its result to forward
HasResult(c) == c.pc \in {"report", "stats"} \/ (c.pc \in Terminal /\ c.at \in {"report", "stats"})

\* C1: the cycles running at any moment number at most concurrent_forward
C1_CycleGate == NumRunning <= CONFIG.concurrent_forward

CounterOf(store, w) == DictGet(ReadOne(store, <<>>, w), w)

\* C5: a step that executes update_scoring_records(ids) raises the counter
\* read for each id by one and sets the key's TTL to the interval
C5_RecordThenRead ==
    [][\A c \in Live :
          (c.pc = "record" /\ redis' = update_scoring_records(redis, c.to_score, CONFIG))
          => \A w \in Range(c.to_score) :
                /\ CounterOf(redis', w) = CounterOf(redis, w) + 1
                /\ redis'[ReadKey(w)].ttl = CONFIG.interval]_vars

C7_FailureStaysInCycle ==
    \A c \in Live : c.error # "none" => c.pc # "raised"

\* the workers cycle c classified
Classified(c) == Range(uids_of(c.valid)) \cup Range(uids_of(c.invalid))

HasValidated(c) == c.pc \in {"read", "oracle", "record", "report", "stats"}

\* C10: each granted id is in exactly one of the two partitions, and the
\* partitions hold no other id
C10_Partition ==
    \A c \in Live : HasValidated(c) =>
        /\ \A w \in Range(c.uids) :
              Cardinality({i \in 1..Len(c.valid) : c.valid[i][1] = w})
              + Cardinality({i \in 1..Len(c.invalid) : c.invalid[i][1] = w}) = 1
        /\ Classified(c) \subseteq Range(c.uids)

StagePos(pc) ==
    CASE pc = "start"     -> 0
      [] pc = "admission" -> 1
      [] pc = "task"      -> 2
      [] pc = "axons"     -> 3
      [] pc = "dispatch"  -> 4
      [] pc = "validate"  -> 5
      [] pc = "read"      -> 6
      [] pc = "oracle"    -> 7
      [] pc = "record"    -> 8
      [] pc = "report"    -> 9
      [] pc = "stats"     -> 10
      [] OTHER            -> 11

\* this step is a step of the coroutine c, which becomes d
StepOf(c, d) ==
    c # d /\ cycles' = (cycles (-) SetToBag({c})) (+) SetToBag({d})

\* d is at the stage after that of c: the next position, the next GET of
\* the ledger read, or the report when nothing is left to score
NextStage(c, d) ==
    \/ StagePos(d.pc) = StagePos(c.pc) + 1
    \/ c.pc = "read" /\ d.pc = "read" /\ d.rd = c.rd + 1
    \/ c.pc = "validate" /\ d.pc = "report" /\ d.valid = <<>>
    \/ c.pc = "read" /\ d.pc = "report" /\ d.to_score = <<>>

\* a step of a cycle follows the order of the stages
InOrder(c, d) ==
    /\ d.pc \notin Terminal => NextStage(c, d)
    /\ d.pc = "completed" => c.pc = "stats"

\* C12: every step of a cycle goes to the next stage or ends the cycle, a
\* cycle completes only from the stats update, and a cycle that has ended
\* takes no further step: no call of it returns and no ledger write is made
C12_StageOrder ==
    [][\A c \in Live : \A d \in BagToSet(cycles') :
          StepOf(c, d) => (c.pc \notin Terminal /\ InOrder(c, d))]_vars

\* C13: no cycle is ended by a failure of the reporting stage, be it in
\* building the batch record or in posting it
C13_ReportNeverAborts ==
    \A c \in Live : c.error # "report"

\* the workers of c whose endpoint gave no response
Absent(c) ==
    {c.uids[i] : i \in {j \in 1..Min(Len(c.uids), Len(c.responses)) :
                            ~c.responses[j].present}}

\* C14: a cycle with absent responses classifies each of their workers as
\* invalid for no_response, gives it the final score 0, and is not ended
\* by the stages after dispatch on account of the absent response
C14_AbsentIsData ==
    \A c \in Live : \A w \in Absent(c) :
        /\ HasValidated(c) =>
              \E i \in 1..Len(c.invalid) :
                  c.invalid[i][1] = w /\ c.invalid[i][3] = "no_response"
        /\ HasResult(c) =>
              \E i \in 1..Min(Len(c.final_uids), Len(c.final_scores)) :
                  c.final_uids[i] = w /\ c.final_scores[i] = 0
        /\ ~(c.pc \in {"aborted", "raised"} /\ c.at = "report" /\ c.error = "report")

\* the number of cycles inside the call of score_batch
NumInOracle == BagCardinality([c \in {d \in Live : d.pc = "oracle"} |-> cycles[c]])

NumUnfinished == BagCardinality([c \in {d \in Live : d.pc \notin Terminal} |-> cycles[c]])

C17_Backpressure == NumUnfinished <= CONFIG.concurrent_forward

\* C18: whatever way a tick of the weights task fails, the task goes on:
\* every tick reaches its sleep and the sleep is followed by the fetch of
\* the next tick; and set_weights is handed the snapshot fetched in the
\* same tick
C18_TicksGoOn ==
    /\ (weights.pc \in {"fetch", "submit", "log"}) ~> (weights.pc = "sleep")
    /\ (weights.pc = "sleep") ~> (weights.pc = "fetch")
    /\ [][(weights.pc = "submit" /\ weights'.pc # "submit") =>
              (weights.snapshot # NoSnapshot /\ weights'.sent = weights.snapshot)]_vars

\* a tick that succeeded after an earlier tick had failed
C18_Witness ==
    weights.failed /\ weights.pc = "log" /\ weights.result

\* C19: once created, the weights task can always take its next step,
\* whatever the cycles and run() are doing, and it fetches a snapshot again
\* and again also when the cycles make no progress at all
C19_TicksIndependent ==
    /\ [](weights.pc # "unborn" => ENABLED periodically_set_weights)
    /\ []<><<GetScoreWeights>>_vars

\* the weights task has handed a snapshot to set_weights while run() waits
\* for a round of which one cycle has aborted and the other is at the oracle
C19_Witness ==
    /\ weights.pc = "log"
    /\ run_pc = "gather"
    /\ \E c \in Live : c.pc = "aborted"
    /\ \E c \in Live : c.pc = "oracle"

\* C20: run() goes on creating rounds of cycles until it has created as
\* many as MaxCycles allows, whatever the earlier cycles raised; run()
\* does not leave its loop, and the weights task ends only when
\* should_exit is set
C20_SchedulerGoesOn ==
    /\ <>(created + CONFIG.concurrent_forward > MaxCycles)
    /\ [](weights.pc = "done" => should_exit)
    /\ [][(run_pc \in {"loop", "gather", "sleep"}) =>
              (run_pc' \in {"loop", "gather", "sleep"})]_vars

\* run() has started a round after the round before it had raised and left
\* a cycle running
C20_Witness ==
    /\ run_pc = "gather"
    /\ created > CONFIG.concurrent_forward
    /\ \E c \in Live : ~c.awaited /\ c.pc \notin Terminal

C23_TtlReset ==
    [][\A k \in LedgerKeys :
          \/ redis'[k] = redis[k]
          \/ redis'[k] = [exists |-> TRUE, value |-> redis[k].value + 1,
                          ttl |-> CONFIG.interval]
          \/ /\ redis[k].exists /\ redis[k].ttl > 1
             /\ redis'[k] = [redis[k] EXCEPT !.ttl = @ - 1]
          \/ /\ redis[k].exists /\ redis[k].ttl = 1
             /\ redis'[k] = NoKey
          \/ /\ run_pc = "flush"
             /\ redis'[k] = NoKey]_vars

\* a worker has been scored again before its key expired: the value has
\* grown past 1 and the whole interval lies ahead
C23_Witness ==
    \E k \in LedgerKeys :
        redis[k].exists /\ redis[k].value >= 2 /\ redis[k].ttl = CONFIG.interval

C30_FreeWorkerStarts ==
    (/\ \E c \in Awaited : c.pc \in {"completed", "aborted"}
     /\ run_pc = "gather"
     /\ created + CONFIG.concurrent_forward <= MaxCycles)
    => ENABLED (GatherReturn \/ GatherRaise \/ Spawn)

\* C32: validate_responses classifies the i-th response under uids[i], and
\* the i-th response came from the i-th endpoint dispatched to: the two
\* ids are the same, and every id the cycle classifies, returns from
\* get_scores or hands to update_stats has an endpoint that was dispatched to
C32_OwnId ==
    \A c \in Live :
        /\ Classified(c) # {} =>
              \A i \in 1..Min(Len(c.uids), Len(c.responses)) : c.uids[i] = c.axons[i]
        /\ Classified(c) \subseteq Range(c.axons)
        /\ Range(c.final_uids) \subseteq Range(c.axons)
        /\ \A i \in 1..Len(c.stats) : c.stats[i][1] \in Range(c.axons)

EarlyStages == {"start", "admission", "task", "axons", "dispatch", "validate"}

\* C34: a cycle in which the ledger read or the oracle call failed has
\* ended without completing, has incremented no counter and has made no
\* update_stats call, for its invalid workers neither; a cycle that ended
\* in a stage before the ledger read has incremented no counter; and the
\* ledger changes only by the flush of run(), by the clock, or by the
\* update_scoring_records of a cycle that has the oracle's answer
C34_FailedScoringChangesNothing ==
    /\ [](\A c \in Live :
            /\ c.error \in {"read", "oracle"} =>
                  /\ c.pc \in {"aborted", "raised"}
                  /\ c.recorded = <<>>
                  /\ c.stats = <<>> /\ c.pending = <<>>
            /\ (c.pc \in Terminal /\ c.at \in EarlyStages) => c.recorded = <<>>)
    /\ [][redis' # redis =>
            \/ run_pc = "flush" /\ redis' = flush_db(redis)
            \/ redis' = Expire(redis)
            \/ \E c \in Live :
                  /\ c.pc = "record"
                  /\ redis' = update_scoring_records(redis, c.to_score, CONFIG)]_vars

\* the oracle call of a cycle with an invalid and a valid worker has failed
\* and the cycle has aborted
C34_Witness ==
    \E c \in Live :
        /\ c.pc = "aborted" /\ c.error = "oracle"
        /\ c.invalid # <<>> /\ c.valid # <<>>


----------------------------------------------------------------------------
(* Properties of the scoring engine *)

\* the call of fn has returned
Returned(fn) == calc.fn = fn /\ calc.done

\* equality and order of fractions with positive denominators
FracEq(x, y) == x[1] * y[2] = y[1] * x[2]
FracLeq(x, y) == x[1] * y[2] <= y[1] * x[2]

\* the class the rules give a response, the first rule that applies: absent,
\* not successful, text empty or rate above the maximum, otherwise valid
RuleOf(response, task, config) ==
    IF ~response.present THEN "no_response"
    ELSE IF ~response.is_success THEN "not_successful"
    ELSE IF \/ response.tokens = 0
            \/ RateAbove(get_compress_rate(response, task), config.max_compress_rate)
         THEN "verification_failed"
         ELSE "valid"

\* the ids at the positions of responses whose rule is in classes, in order
RECURSIVE RuledFrom(_, _, _)
RuledFrom(args, classes, i) ==
    IF i > Len(args.uids) THEN <<>>
    ELSE (IF RuleOf(args.responses[i], args.task, CONFIG) \in classes
          THEN <<<<args.uids[i], RuleOf(args.responses[i], args.task, CONFIG)>>>>
          ELSE <<>>) \o RuledFrom(args, classes, i + 1)

\* C21: validate_responses classifies each (uid, response) by the first rule
\* that applies: the valid list holds, in order, the ids whose response is
\* present, successful, not empty and not above the maximum rate; the
\* invalid list holds the others with the reason of their rule
C21_Classification ==
    Returned("validate_responses") =>
        /\ [i \in 1..Len(calc.out.valid) |->
                <<calc.out.valid[i][1], "valid">>]
           = RuledFrom(calc.args, {"valid"}, 1)
        /\ [i \in 1..Len(calc.out.invalid) |->
                <<calc.out.invalid[i][1], calc.out.invalid[i][3]>>]
           = RuledFrom(calc.args, {"no_response", "not_successful",
                                   "verification_failed"}, 1)

\* the sum of 1 - word_edit_similarity(texts[i], texts[j]) over the j in J
RECURSIVE SumOfDifferences(_, _, _)
SumOfDifferences(texts, i, J) ==
    IF J = {} THEN Zero
    ELSE LET j == CHOOSE x \in J : TRUE
         IN  FracAdd(FracSub(One, word_edit_similarity(texts[i], texts[j])),
                     SumOfDifferences(texts, i, J \ {j}))

\* C24: get_text_differentiate_score returns one score for each text: [] for
\* no text, [1.0] for one text, and for two or more the mean over the other
\* texts of 1 - word_edit_similarity; every score lies in [0, 1]
C24_Differentiate ==
    Returned("get_text_differentiate_score") =>
        LET texts == calc.args.texts
            n     == Len(texts)
        IN  /\ Len(calc.out) = n
            /\ n = 1 => calc.out = <<One>>
            /\ n >= 2 =>
                 \A i \in 1..n :
                    FracEq(FracMul(calc.out[i], Frac(n - 1, 1)),
                           SumOfDifferences(texts, i, (1..n) \ {i}))
            /\ \A i \in 1..n :
                 FracLeq(Zero, calc.out[i]) /\ FracLeq(calc.out[i], One)

\* three different texts have been scored, one of them strictly between the
\* two ends of the range
C24_Witness ==
    /\ Returned("get_text_differentiate_score")
    /\ Len(calc.args.texts) = 3
    /\ \A i, j \in 1..3 : i # j => calc.args.texts[i] # calc.args.texts[j]
    /\ \E i \in 1..3 : ~FracLeq(calc.out[i], Zero) /\ ~FracLeq(One, calc.out[i])

\* x and y are the same letter, in the same case or not
SameLetter(x, y) == x = y \/ {x, y} = {"a", "A"}

\* t1 and t2 differ only in letter case or in characters outside the word
\* tokens: position by position the characters are the same letter, or are
\* both outside the words
SameWords(t1, t2) ==
    /\ Len(t1) = Len(t2)
    /\ \A i \in 1..Len(t1) :
          \/ IsWordChar(t1[i]) /\ IsWordChar(t2[i]) /\ SameLetter(t1[i], t2[i])
          \/ ~IsWordChar(t1[i]) /\ ~IsWordChar(t2[i])

\* t2 is t1 with one more character outside the words, before or after it
Padded(t1, t2) ==
    \E ch \in {x \in Chars : ~IsWordChar(x)} : t2 = <<ch>> \o t1 \/ t2 = t1 \o <<ch>>

\* C25: a text has similarity 1.0 with itself, and with a text that differs
\* from it only in letter case or in characters outside the word tokens; a
\* batch of two or more such texts gets the score 0.0 for each
C25_Identical ==
    /\ Returned("word_edit_similarity") =>
          LET t1 == calc.args.text1
              t2 == calc.args.text2
          IN  (SameWords(t1, t2) \/ Padded(t1, t2) \/ Padded(t2, t1)) =>
                  calc.out.distance = 0 /\ FracEq(calc.out.similarity, One)
    /\ Returned("get_text_differentiate_score") =>
          LET texts == calc.args.texts
          IN  (/\ Len(texts) >= 2
               /\ \A i, j \in 1..Len(texts) : SameWords(texts[i], texts[j]))
              => \A i \in 1..Len(texts) : FracEq(calc.out[i], Zero)

\* two texts of two words that differ in the case of a letter and in the
\* separator have been compared
C25_Witness ==
    /\ Returned("word_edit_similarity")
    /\ Len(extract_words(calc.args.text1)) = 2
    /\ SameWords(calc.args.text1, calc.args.text2)
    /\ \E i \in 1..Len(calc.args.text1) :
          IsWordChar(calc.args.text1[i]) /\ calc.args.text1[i] # calc.args.text2[i]
    /\ \E i \in 1..Len(calc.args.text1) :
          ~IsWordChar(calc.args.text1[i]) /\ calc.args.text1[i] # calc.args.text2[i]

\* the least number of word insertions, deletions and substitutions that
\* turn the first i words of w1 into the first j words of w2, by the cost of
\* the last operation: the words w1[i] and w2[j] are matched when equal, or
\* w1[i] is deleted, or w2[j] is inserted, or w1[i] is substituted by w2[j]
RECURSIVE LeastEdits(_, _, _, _)
LeastEdits(w1, w2, i, j) ==
    IF i = 0 THEN j
    ELSE IF j = 0 THEN i
    ELSE LET del == 1 + LeastEdits(w1, w2, i - 1, j)
             ins == 1 + LeastEdits(w1, w2, i, j - 1)
             sub == 1 + LeastEdits(w1, w2, i - 1, j - 1)
             candidates == {del, ins, sub} \cup
                           (IF w1[i] = w2[j] THEN {LeastEdits(w1, w2, i - 1, j - 1)} ELSE {})
         IN  CHOOSE m \in candidates : \A x \in candidates : m <= x

\* C26: word_edit_similarity gives the same value for (a, b) and (b, a) and
\* a value in [0, 1]: the distance is the least number of word insertions,
\* deletions and substitutions and is at most the larger word count
C26_Symmetric ==
    Returned("word_edit_similarity") =>
        LET a  == calc.args.text1
            b  == calc.args.text2
            wa == extract_words(a)
            wb == extract_words(b)
        IN  /\ FracEq(calc.out.similarity, word_edit_similarity(b, a))
            /\ calc.out.distance = word_edit_distance(b, a)
            /\ calc.out.distance = LeastEdits(wa, wb, Len(wa), Len(wb))
            /\ calc.out.distance >= 0
            /\ calc.out.distance <= Max(Len(wa), Len(wb))
            /\ FracLeq(Zero, calc.out.similarity)
            /\ FracLeq(calc.out.similarity, One)

\* two texts of three and two words, with a word in common, have been
\* compared: the distance is strictly between 0 and the larger word count
C26_Witness ==
    /\ Returned("word_edit_similarity")
    /\ Len(extract_words(calc.args.text1)) = 3
    /\ Len(extract_words(calc.args.text2)) = 2
    /\ calc.out.distance \in 1..2

\* C28: of two entries of SCORE_ENSEMBLE with the same compress rate >= 0
\* and the same differentiation score >= 0, the one with the smaller raw
\* score is not the larger
C28_Monotone ==
    Returned("SCORE_ENSEMBLE") =>
        \A i, j \in 1..Len(calc.out) :
            (/\ calc.args.compress_rates[i] = calc.args.compress_rates[j]
             /\ calc.args.differentiate_scores[i] = calc.args.differentiate_scores[j]
             /\ FracLeq(Zero, calc.args.compress_rates[i])
             /\ FracLeq(Zero, calc.args.differentiate_scores[i])
             /\ FracLeq(calc.args.raw_scores[i], calc.args.raw_scores[j]))
            => FracLeq(calc.out[i], calc.out[j])

\* two workers with the same positive rate and differentiation score and
\* different raw scores, one of them negative, have been scored
C28_Witness ==
    /\ Returned("SCORE_ENSEMBLE")
    /\ Len(calc.out) = 2
    /\ calc.args.compress_rates[1] = calc.args.compress_rates[2]
    /\ calc.args.differentiate_scores[1] = calc.args.differentiate_scores[2]
    /\ ~FracLeq(calc.args.compress_rates[1], Zero)
    /\ ~FracLeq(calc.args.differentiate_scores[1], Zero)
    /\ ~FracLeq(Zero, calc.args.raw_scores[1])
    /\ ~FracLeq(calc.args.raw_scores[2], Zero)
    /\ ~FracLeq(calc.out[2], calc.out[1])

C31_ReasonGiven ==
    Returned("validate_responses") =>
        \A i \in 1..Len(calc.out.invalid) :
            calc.out.invalid[i][3] \in
                {"no_response", "not_successful", "verification_failed"}

====
